---- MODULE Spec2Model ----
(***************************************************************************)
(* Verification model of rprblender/render/scene.py: the coalescing inbox  *)
(* (UpdateBlock / UpdateData), the refine-loop driver (SceneRenderer) and  *)
(* the threaded coordinator (RenderThread / SceneRendererThreaded).        *)
(*                                                                         *)
(* Three specifications share this module:                                 *)
(*   SpecUB  UpdateData.update_block as a function of slot, current, new   *)
(*   SpecSR  one SceneRenderer driven sequentially                         *)
(*   Spec    SceneRendererThreaded: host thread against worker threads     *)
(***************************************************************************)
EXTENDS Integers, Sequences, FiniteSets, TLC

(***************************************************************************)
(* Values.  A value of the model stands for the content of the Python      *)
(* object (a resolution pair, a region, an AOV selection, a camera state). *)
(* None is Python's None.                                                  *)
(***************************************************************************)
None == 0

\* Largest non-None value of a field.
MaxVal == 2

Vals == {None} \cup (1..MaxVal)

----------------------------------------------------------------------------
(***************************************************************************)
(* UpdateBlock and UpdateData.update_block                                 *)
(***************************************************************************)

\* The four blocks of UpdateData, named as the attributes are.
Fields == {"render_region", "render_resolution", "aov", "render_camera"}

\* np.array_equal on two values (None against None is equal, None against
\* an array is not).
array_equal(a, b) == a = b

\* old.is_same(new) of the camera object: same camera state.
is_same(old, new) == old = new

\* The equality predicate each block is constructed with.
equal(f, old, new) ==
  CASE f \in {"render_region", "render_resolution"} -> array_equal(old, new)
    [] f = "aov"           -> old # None /\ old = new
    [] f = "render_camera" -> old # None /\ is_same(old, new)

\* UpdateBlock(value, has_value): the constructor.
UpdateBlock(value, has_value) == [value |-> value, has_value |-> has_value]

\* UpdateData.__init__: the region block takes the default has_value=True.
UpdateDataInit ==
  [f \in Fields |->
     IF f = "render_region" THEN UpdateBlock(None, TRUE)
                            ELSE UpdateBlock(None, FALSE)]

set_value(block, value) == [block EXCEPT !.has_value = TRUE, !.value = value]

del_value(block) == [block EXCEPT !.has_value = FALSE]

\* Mutant: pop_value returns the value and leaves it pending.
pop_value_keeps(block) == block

\* pop_value returns block.value and leaves this block.
pop_value(block) == [block EXCEPT !.has_value = FALSE]

\* Mutant: the revert branch forgets to drop the queued value.
update_block_keeps_pending(f, block, block_value_current, block_value_new) ==
  IF block.has_value /\ equal(f, block.value, block_value_new)
  THEN block
  ELSE IF equal(f, block_value_current, block_value_new)
       THEN block
       ELSE set_value(block, block_value_new)

\* Mutant: the queued-already test is made against the applied value, so a
\* repeated call for a value that is pending is taken for a revert.
update_block_toggles(f, block, block_value_current, block_value_new) ==
  IF equal(f, block_value_current, block_value_new)
  THEN IF block.has_value THEN del_value(block) ELSE block
  ELSE IF block.has_value /\ equal(f, block.value, block_value_new)
       THEN del_value(block)
       ELSE set_value(block, block_value_new)

\* UpdateData.update_block: the block after the call.
update_block(f, block, block_value_current, block_value_new) ==
  IF block.has_value /\ equal(f, block.value, block_value_new)
  THEN block
  ELSE IF equal(f, block_value_current, block_value_new)
       THEN IF block.has_value THEN del_value(block) ELSE block
       ELSE set_value(block, block_value_new)

----------------------------------------------------------------------------
(***************************************************************************)
(* SceneRenderer: the render target set, and the refine generator          *)
(* _render_proc.                                                           *)
(***************************************************************************)

\* iteration_in_progress = None.
NoIter == -1

\* Largest user sample count (settings.samples) and used GPU count.
MaxSamples == 2
MaxGPUs == 3

\* Largest configured time limit, and the most the clock advances during one
\* native call.
MaxTime == 2
MaxAdvance == 2

\* The iteration counter of a cycle without an iteration limit is not read by
\* any test of the code; the model stops counting it here.
IterCap == 1

\* samples = 100 of a production render on GPU plus CPU.
MixedSamples == 100

\* The iteration limits of the render settings.
IterLimits == {1, 5, 100}

Min(a, b) == IF a < b THEN a ELSE b

Max(a, b) == IF a > b THEN a ELSE b

\* render_layers = None: layers of no render targets.
NoLayers == [aov |-> None, targets |-> None]

\* The output channels a caller asks images of.
AovNames == {"default", "depth"}

\* How many images the resolves of one run make.
MaxImages == 2

\* A resolved image object: id tells the objects apart, targets are the
\* render targets it was resolved from.
Image(n, rt) == [id |-> n, targets |-> rt]

\* No image: get_image returning None, an aov not in im_prepared.
NoImage == Image(0, None)

\* SceneRenderer.__init__ (render_targets and render_layers are the class
\* attributes, None).
SceneRendererInit ==
  [resolution |-> None, region |-> None, aov_settings |-> None,
   render_targets |-> None, render_layers |-> NoLayers,
   cache_generated |-> FALSE, iteration_in_progress |-> NoIter,
   used_iterations |-> 1, aasamples |-> None,
   im_prepared |-> [a \in AovNames |-> NoImage]]

\* A RenderTargets object that is none of `used`.
NewTargets(used) == CHOOSE n \in 1..(Cardinality(used) + 1) : n \notin used

\* The RenderTargets objects the renderer s still tells apart: the one it
\* holds and those the images of its cache were resolved from.
KnownTargets(s) == {s.render_targets} \cup {s.im_prepared[a].targets : a \in AovNames}

\* Mutant: the previous render targets are dropped without being detached.
urr_forget(s, attached) ==
  <<[s EXCEPT !.render_layers = NoLayers, !.render_targets = None], attached>>

\* update_render_resolution, lines 74-77: drop the layers, detach and delete
\* the render targets there are.  <<renderer, attached>> afterwards.
urr_detach(s, attached) ==
  IF s.render_targets # None
  THEN <<[s EXCEPT !.render_layers = NoLayers, !.render_targets = None],
         attached \ {s.render_targets}>>
  ELSE <<[s EXCEPT !.render_layers = NoLayers], attached>>

\* Mutant: the new layers are made without the aov settings.
urr_create_without_aov(s, attached, render_resolution) ==
  LET rt == NewTargets((attached \cup KnownTargets(s)) \ {None})
  IN [s EXCEPT !.resolution = render_resolution,
               !.render_targets = rt,
               !.render_layers = [aov |-> None, targets |-> rt]]

\* update_render_resolution, lines 79-82: the new render targets and layers.
urr_create(s, attached, render_resolution) ==
  LET rt == NewTargets((attached \cup KnownTargets(s)) \ {None})
  IN [s EXCEPT !.resolution = render_resolution,
               !.render_targets = rt,
               !.render_layers = [aov |-> s.aov_settings, targets |-> rt]]

\* update_render_resolution, line 84.
urr_attach(s, attached) == attached \cup {s.render_targets}

\* The settings a refine cycle reads: rs.rendering_limits, the user settings
\* and is_production.
Config(enable, type, iterations, time, samples, numGPUs, device_type, plus_cpu, prod) ==
  [enable |-> enable, type |-> type, iterations |-> iterations, time |-> time,
   samples |-> samples, numGPUs |-> numGPUs, device_type |-> device_type,
   device_type_plus_cpu |-> plus_cpu, is_production |-> prod]

\* Lines 194-215: the sample count of the cycle.
EffectiveSamples(c) ==
  IF c.enable /\ c.type = "ITER"
  THEN IF c.is_production /\ c.device_type = "gpu" /\ c.device_type_plus_cpu
       THEN MixedSamples
       ELSE IF c.numGPUs > c.samples /\ c.is_production
            THEN c.numGPUs
            ELSE c.samples
  ELSE c.samples

\* Mutant: the iteration count is not clamped to 1.
UsedIterationsUnclamped(c, before) ==
  IF c.enable /\ c.type = "ITER"
  THEN (c.iterations * c.samples) \div EffectiveSamples(c)
  ELSE before

\* Lines 206-210: used_iterations, which a cycle without an iteration limit
\* leaves as it was.
UsedIterations(c, before) ==
  IF c.enable /\ c.type = "ITER"
  THEN LET n == (c.iterations * c.samples) \div EffectiveSamples(c)
       IN IF n < 1 THEN 1 ELSE n
  ELSE before

\* Whether the clock is read by a test of the cycle.
Timed(c) == c.enable /\ c.type = "TIME"

\* What the clock may advance by during one native call.
Advances(c) == IF Timed(c) THEN 0..MaxAdvance ELSE {0}

\* A generator object of _render_proc: pc is where it stands, i the loop
\* counter, elapsed the clock since time_start, yields how often it yielded.
\*   "none"     no generator          "created"  made, not started
\*   "apply"    before settings-apply "clear"    before the buffer clear
\*   "loop"     at the limit tests    "render"   before the render call
\*   "yielded"  suspended at yield    "done"     exhausted
\*   "failed"   ended by an error
NoGen == [pc |-> "none", i |-> 0, elapsed |-> 0, yields |-> 0, render_region |-> None]

\* scene_renderer.render_proc(): nothing of the body runs yet.
gen_create == [NoGen EXCEPT !.pc = "created"]

\* Mutant: the cycle goes to its loop without settings-apply and clear.
gen_begin_skips_clear(g, s, c) ==
  <<[g EXCEPT !.pc = "loop", !.elapsed = 0, !.render_region = s.region],
    [s EXCEPT !.used_iterations = UsedIterations(c, s.used_iterations),
              !.iteration_in_progress = NoIter]>>

\* Lines 187-230 on the first next(): <<generator, renderer>> afterwards.
gen_begin(g, s, c) ==
  <<[g EXCEPT !.pc = "apply", !.elapsed = 0, !.render_region = s.region],
    [s EXCEPT !.used_iterations = UsedIterations(c, s.used_iterations),
              !.iteration_in_progress = NoIter]>>

\* Lines 234-261: the settings-apply batch, taking d of the clock.
gen_apply(g, s, c, d) ==
  <<[g EXCEPT !.pc = "clear", !.elapsed = Min(g.elapsed + d, MaxTime)],
    [s EXCEPT !.aasamples = EffectiveSamples(c)]>>

\* Lines 263-264: render_targets.clear(), taking d of the clock.
gen_clear(g, d) == [g EXCEPT !.pc = "loop", !.elapsed = Min(g.elapsed + d, MaxTime)]

\* Mutant: the limits are tested whether they are enabled or not.
limit_reached_without_enable(g, s, c) ==
  \/ c.type = "TIME" /\ c.time # 0 /\ c.time <= g.elapsed
  \/ c.type = "ITER" /\ s.used_iterations # 0 /\ s.used_iterations <= g.i

\* Mutant: the iteration test lets the loop run one pass more.
limit_reached_late(g, s, c) ==
  /\ c.enable
  /\ \/ c.type = "TIME" /\ c.time # 0 /\ c.time <= g.elapsed
     \/ c.type = "ITER" /\ s.used_iterations # 0 /\ s.used_iterations < g.i

\* Lines 267-274: the tests that break the loop.
limit_reached(g, s, c) ==
  /\ c.enable
  /\ \/ c.type = "TIME" /\ c.time # 0 /\ c.time <= g.elapsed
     \/ c.type = "ITER" /\ s.used_iterations # 0 /\ s.used_iterations <= g.i

\* Lines 266-279: the top of the loop.
gen_loop(g, s, c) ==
  IF limit_reached(g, s, c)
  THEN <<[g EXCEPT !.pc = "done"], s>>
  ELSE <<[g EXCEPT !.pc = "render"], [s EXCEPT !.iteration_in_progress = g.i]>>

\* Mutant: the render call leaves the image cache as it is.
gen_render_keeps_cache(g, s, c, d) ==
  <<[g EXCEPT !.pc = "yielded", !.elapsed = Min(g.elapsed + d, MaxTime),
              !.yields = IF c.enable /\ c.type = "ITER"
                         THEN g.yields + 1 ELSE Min(g.yields + 1, IterCap)],
    [s EXCEPT !.cache_generated = TRUE]>>

\* Lines 281-297: the render call, taking d of the clock, up to the yield.
gen_render(g, s, c, d) ==
  <<[g EXCEPT !.pc = "yielded", !.elapsed = Min(g.elapsed + d, MaxTime),
              !.yields = IF c.enable /\ c.type = "ITER"
                         THEN g.yields + 1 ELSE Min(g.yields + 1, IterCap)],
    [s EXCEPT !.cache_generated = TRUE,
              !.im_prepared = [a \in AovNames |-> NoImage]]>>

\* The generator resumed after its yield: the next pass of itertools.count().
gen_resume(g, c) ==
  [g EXCEPT !.pc = "loop",
            !.i = IF c.enable /\ c.type = "ITER" THEN g.i + 1 ELSE Min(g.i + 1, IterCap)]

\* An error raised by a native call ends the generator.
gen_fail(g) == [g EXCEPT !.pc = "failed"]

\* render_targets.get_frame_buffer(aov_name): the default channel has a frame
\* buffer, another channel has one when the layers were made with aov
\* settings.
get_frame_buffer(s, aov_name) ==
  aov_name = "default" \/ s.render_layers.aov # None

\* The ways get_image(aov_name) can go, lines 318-356:
\*   "cached"          aov_name is in im_prepared (line 318)
\*   "AttributeError"  render_targets (line 323) or render_layers (line 354)
\*                     is None
\*   "error"           a native call fails (core_operations(raise_error=True))
\*   "no_buffer"       there is no frame buffer (lines 325-326)
\*   "no_image"        get_resolved_image gives None (line 353)
\*   "image"           the image is resolved, prepared and cached
get_image_outcomes(s, aov_name) ==
  IF s.im_prepared[aov_name] # NoImage THEN {"cached"}
  ELSE IF s.render_targets = None THEN {"AttributeError"}
  ELSE IF ~get_frame_buffer(s, aov_name) THEN {"error", "no_buffer"}
  ELSE {"error", "no_image",
        IF s.render_layers = NoLayers THEN "AttributeError" ELSE "image"}

\* Mutant: a resolve that gives no image leaves an entry in the cache.
get_image_caches_unresolved(s, aov_name, outcome, n) ==
  IF outcome = "cached" THEN <<s, s.im_prepared[aov_name]>>
  ELSE IF outcome = "image"
  THEN <<[s EXCEPT !.im_prepared[aov_name] = Image(n, s.render_targets)],
         Image(n, s.render_targets)>>
  ELSE IF outcome = "no_image"
  THEN <<[s EXCEPT !.im_prepared[aov_name] = Image(n, s.render_targets)], NoImage>>
  ELSE <<s, NoImage>>

\* get_image(aov_name) going the way `outcome`, n being the identity of the
\* image a resolve makes: <<renderer, returned image>> afterwards.
get_image(s, aov_name, outcome, n) ==
  IF outcome = "cached" THEN <<s, s.im_prepared[aov_name]>>
  ELSE IF outcome = "image"
  THEN <<[s EXCEPT !.im_prepared[aov_name] = Image(n, s.render_targets)],
         Image(n, s.render_targets)>>
  ELSE <<s, NoImage>>

----------------------------------------------------------------------------
(***************************************************************************)
(* ImagePixels (export/image.py).  An array is its shape <<width, height>>,*)
(* pixels = None the empty tuple.                                          *)
(***************************************************************************)
\* Largest width and height of a source image.
MaxDim == 2

\* The length of seq[a:b] for a sequence of n items: Python slicing counts a
\* negative index from the end and clamps both to 0..n.
PySliceLen(n, a, b) ==
  LET norm(i) == IF i < 0 THEN Max(i + n, 0) ELSE Min(i, n)
  IN Max(norm(b) - norm(a), 0)

\* extract_pixels_region: pixels[y1:y2+1, x1:x2+1, :].
extract_pixels_region(pixels, x1, y1, x2, y2) ==
  <<PySliceLen(pixels[1], x1, x2 + 1), PySliceLen(pixels[2], y1, y2 + 1)>>

\* ImagePixels.__init__ for an image of iw x ih pixels (channels not 0) and
\* region.
ImagePixels(iw, ih, region) ==
  IF iw * ih = 0
  THEN [pixels |-> <<>>, size |-> <<0, 0>>]
  ELSE [pixels |-> extract_pixels_region(<<iw, ih>>, region[1], region[2],
                                         region[3], region[4]),
        size |-> <<region[3] - region[1] + 1, region[4] - region[2] + 1>>]

is_empty(ip) == ip.pixels = <<>>

\* No rpr image: export_region returning None.
NoRprImage == [key |-> <<>>, shape |-> <<>>]

\* export_region(rpr_context, x1, y1, x2, y2), images being
\* rpr_context.images: what it returns and the images of the context
\* afterwards.
export_region(ip, images, x1, y1, x2, y2) ==
  IF is_empty(ip) THEN [ret |-> NoRprImage, images |-> images]
  ELSE IF \/ x1 = x2 \/ y1 = y2
          \/ x1 >= ip.size[1] \/ x2 < 0
          \/ y1 >= ip.size[2] \/ y2 < 0
  THEN [ret |-> NoRprImage, images |-> images]
  ELSE LET image_key == <<x1, y1, x2, y2>>
           made == [key |-> image_key,
                    shape |-> extract_pixels_region(ip.pixels, x1, y1, x2, y2)]
       IN IF \E i \in images : i.key = image_key
          THEN [ret |-> CHOOSE i \in images : i.key = image_key, images |-> images]
          ELSE [ret |-> made, images |-> images \cup {made}]

----------------------------------------------------------------------------
(***************************************************************************)
(* Variables.  Each specification moves its own and leaves the others at   *)
(* their initial values.                                                   *)
(***************************************************************************)
VARIABLES ub_field, ub_block, ub_last, ub_rep, ub_first

VARIABLES sr, attached, cfg, gen, sq_pc, sq_arg, sq_detached

\* History of the get_image calls, read by the properties only:
\*   count      the images resolved so far
\*   last       per aov, what the last get_image of it returned
\*   rendered   per aov, a render call was completed since that call
\*   call       the last get_image call: its aov, the way it went, what it
\*              returned, and last / rendered of its aov when it was made
VARIABLES img

\* An ImagePixels (ip), the images of the rpr context it exports to, and the
\* last export_region call: its arguments, what it returned, whether it made
\* an image in the context, how often it was made.
VARIABLES er

erVars == <<er>>

ubVars == <<ub_field, ub_block, ub_last, ub_rep, ub_first>>

srVars == <<sr, attached, cfg, gen, sq_pc, sq_arg, sq_detached, img>>

ImgInit ==
  [count |-> 0,
   last |-> [a \in AovNames |-> NoImage],
   rendered |-> [a \in AovNames |-> FALSE],
   call |-> [aov |-> "default", outcome |-> "none", ret |-> NoImage,
             prev |-> NoImage, rendered |-> FALSE]]

(***************************************************************************)
(* SceneRendererThreaded and its RenderThreads.  Caller 0 is the host      *)
(* thread, callers 1..MaxThreads the worker threads in the order start()   *)
(* made them.                                                              *)
(*   co     the attributes of the coordinator: update_data, the applied    *)
(*          values (render_resolution, aov, render_region, render_camera), *)
(*          _need_scene_redraw, render_completed_event, stop_requested,    *)
(*          thread (0: None)                                               *)
(*   th     per worker thread: where it stands (pc), which check_updates   *)
(*          call of the tick it is in (site), the argument of the          *)
(*          update_render_resolution it runs (arg), its terminate_event    *)
(*   locks  the holders of update_lock, update_data_lock and image_lock    *)
(*   host   the host thread: the call it is in (pc) with its arguments,    *)
(*          and the calls it has made (ops)                                *)
(*   hist   history of the run, read by the properties only                *)
(***************************************************************************)
VARIABLES co, th, locks, host, hist

thVars == <<co, th, locks, host, hist>>

vars == <<ubVars, srVars, thVars, erVars>>

\* What the actions of SpecUB, of SpecSR and of Spec leave alone.
notUB == <<srVars, thVars, erVars>>

notSR == <<ubVars, thVars, erVars>>

notGen == <<ubVars, sq_pc, sq_arg, sq_detached, erVars>>

notER == <<ubVars, srVars, thVars>>

NoExport == [called |-> 0, args |-> <<0, 0, 0, 0>>, ret |-> NoRprImage, created |-> FALSE]

ERInit0 == [ip |-> ImagePixels(0, 0, <<0, 0, 0, 0>>), images |-> {}, call |-> NoExport]

notTH == <<notGen, img>>

\* The most worker threads one coordinator is given (start() calls).
MaxThreads == 2

Callers == 0..MaxThreads

\* Settings without a rendering limit.
NoLimitConfig == Config(FALSE, "ITER", 1, 0, 1, 1, "gpu", FALSE, FALSE)

Threads == 1..MaxThreads

\* SceneRendererThreaded.__init__.
CoordinatorInit ==
  [update_data |-> UpdateDataInit,
   applied |-> [f \in Fields |-> None],
   need_scene_redraw |-> FALSE,
   render_completed_event |-> FALSE,
   stop_requested |-> FALSE,
   thread |-> 0]

\* A RenderThread that start() has not made yet.
NoThread == [pc |-> "none", site |-> "first", arg |-> None, terminate_event |-> FALSE]

\* RenderThread.__init__ and Thread.start(): the thread stands before run().
RenderThread == [pc |-> "run", site |-> "first", arg |-> None, terminate_event |-> FALSE]

\* threading.Lock() three times: nobody holds them.
NoLocks == [update_lock |-> {}, update_data_lock |-> {}, image_lock |-> {}]

\* The host thread is in no call.
HostInit == [pc |-> "idle", f |-> "render_region", cur |-> None, new |-> None,
             ops |-> 0]

\* A worker thread that has ended: run() returned, or an error ended it.
Dead == {"exited", "crashed"}

\* How many calls the host thread makes.
MaxHostOps == 3

\* The iteration limits of the threaded specification.
ThreadedIterLimits == {1}

\* History, for the properties:
\*   joined     the threads a stop() has joined and returned from
\*   stop_at    where the worker stood when the last stop() was called
\*   called, last, ticked   per field: an update_* call was completed, its
\*              argument, and a check_updates was completed after it
\*   pair       the two-call pattern update_render_resolution(R1), (R2):
\*              stage 1 after R1, 2 after R2; then the resolutions the
\*              workers invoked SceneRenderer.update_render_resolution with
\*              (invoked), and whether a check_updates was completed (checked)
\*   crash_stopped   the last stop() joined a thread an error had ended
\*   used       per field, the largest value the host has passed so far
\*   fresh      the threads that have not yet come to line 508 of their first
\*              render_proc
\*   cu         the check_updates call a worker is in or has just left: the
\*              worker (by), the fields pending when it took update_data_lock
\*              (pend), the fields popped, in order (order), whether
\*              render_layers.update was invoked (incr), whether aov_settings
\*              held the popped aov when update_render_resolution was entered
\*              (folded), and whether the call has returned (done)
NoCheck == [by |-> 0, pend |-> {}, order |-> <<>>, incr |-> FALSE, folded |-> FALSE,
            done |-> FALSE]

HistInit ==
  [joined |-> {}, stop_at |-> "none",
   called |-> [f \in Fields |-> FALSE],
   last |-> [f \in Fields |-> None],
   ticked |-> [f \in Fields |-> FALSE],
   pair |-> [stage |-> 0, r1 |-> None, r2 |-> None, invoked |-> <<>>, checked |-> FALSE],
   crash_stopped |-> FALSE,
   used |-> [f \in Fields |-> None],
   fresh |-> {},
   cu |-> NoCheck]

----------------------------------------------------------------------------
(***************************************************************************)
(* SpecUB: one block of an UpdateData (ub_field says which), update_block  *)
(* called on it with any current and new value, pop_value consuming it.    *)
(* ub_last records the last call, ub_rep / ub_first the run of calls that  *)
(* repeat it.                                                              *)
(***************************************************************************)
\* How many times one call is repeated.
MaxRep == 3

NoCall == [called |-> FALSE, pre |-> UpdateBlock(None, FALSE), cur |-> None, new |-> None]

\* UpdateData.__init__ for the block; the renderer is not used.
UBInit ==
  /\ ub_field \in Fields
  /\ ub_block = UpdateDataInit[ub_field]
  /\ ub_last = NoCall
  /\ ub_rep = 0
  /\ ub_first = UpdateBlock(None, FALSE)
  /\ sr = SceneRendererInit
  /\ attached = {}
  /\ cfg = NoLimitConfig
  /\ gen = [o \in Callers |-> NoGen]
  /\ sq_pc = "idle"
  /\ sq_arg = None
  /\ sq_detached = None
  /\ img = ImgInit
  /\ co = CoordinatorInit
  /\ th = [t \in Threads |-> NoThread]
  /\ locks = NoLocks
  /\ host = HostInit
  /\ hist = HistInit
  /\ er = ERInit0

\* update_block(block, current, new).
UBUpdate(cur, new) ==
  LET post == update_block(ub_field, ub_block, cur, new)
      again == ub_rep >= 1 /\ ub_last.cur = cur /\ ub_last.new = new
  IN /\ again => ub_rep < MaxRep
     /\ ub_block' = post
     /\ ub_last' = [called |-> TRUE, pre |-> ub_block, cur |-> cur, new |-> new]
     /\ ub_rep' = IF again THEN ub_rep + 1 ELSE 1
     /\ ub_first' = IF again THEN ub_first ELSE post
     /\ UNCHANGED <<ub_field, notUB>>

\* block.pop_value() by the consumer.
UBPop ==
  /\ ub_block.has_value
  /\ ub_block' = pop_value(ub_block)
  /\ ub_last' = NoCall
  /\ ub_rep' = 0
  /\ ub_first' = UpdateBlock(None, FALSE)
  /\ UNCHANGED <<ub_field, notUB>>

UBNext ==
  \/ \E cur \in Vals, new \in Vals : UBUpdate(cur, new)
  \/ UBPop

----------------------------------------------------------------------------
(***************************************************************************)
(* The state of one SceneRenderer and of the render device it draws on.    *)
(*   sr        the attributes of the SceneRenderer                         *)
(*   attached  the render target sets attached to the render device       *)
(*   cfg       the render settings and user settings of the session        *)
(*   gen       the generator each caller holds (caller 0 is the sequential *)
(*             caller of SpecSR, the others are the worker threads)        *)
(*   sq_pc, sq_arg  where the sequential caller stands in                  *)
(*             update_render_resolution, and its argument                  *)
(*   sq_detached    the render targets its last call detached (history)    *)
(***************************************************************************)
\* The resolutions a caller asks for.
Resolutions == 1..MaxVal

\* The settings of the sequential specification: every iteration limit with
\* every sample setting, every time limit (0: none) with one GPU or all of
\* them and with or without the CPU, and no limit.
SRConfigs ==
  {Config(TRUE, "ITER", n, 0, u, g, d, p, prod) :
      n \in IterLimits, u \in 1..MaxSamples, g \in 0..MaxGPUs,
      d \in {"cpu", "gpu"}, p \in BOOLEAN, prod \in BOOLEAN}
  \cup {Config(TRUE, "TIME", 1, t, 1, g, "gpu", p, prod) :
      t \in 0..MaxTime, g \in {1, MaxGPUs}, p \in BOOLEAN, prod \in BOOLEAN}
  \cup {NoLimitConfig}

Running == {"apply", "clear", "loop", "render"}

\* next(render_iter) entered by caller o: the first call runs the body up to
\* the settings-apply, a later one resumes after the yield.  Line 226 raises
\* when a region is set and no resolution is.
GenNext(o) ==
  /\ gen[o].pc \in {"created", "yielded"}
  /\ IF gen[o].pc = "created"
     THEN IF sr.region # None /\ sr.resolution = None
          THEN /\ gen' = [gen EXCEPT ![o] = gen_fail(gen[o])]
               /\ sr' = [sr EXCEPT !.used_iterations = UsedIterations(cfg, sr.used_iterations),
                                   !.iteration_in_progress = NoIter]
          ELSE /\ gen' = [gen EXCEPT ![o] = gen_begin(gen[o], sr, cfg)[1]]
               /\ sr' = gen_begin(gen[o], sr, cfg)[2]
     ELSE /\ gen' = [gen EXCEPT ![o] = gen_resume(gen[o], cfg)]
          /\ UNCHANGED sr
  /\ UNCHANGED <<attached, cfg, img>>

\* The settings-apply batch succeeds.
GenApply(o) ==
  /\ gen[o].pc = "apply"
  /\ \E d \in Advances(cfg) :
       /\ gen' = [gen EXCEPT ![o] = gen_apply(gen[o], sr, cfg, d)[1]]
       /\ sr' = gen_apply(gen[o], sr, cfg, d)[2]
  /\ UNCHANGED <<attached, cfg, img>>

\* The buffer clear succeeds; without render targets it raises.
GenClear(o) ==
  /\ gen[o].pc = "clear"
  /\ sr.render_targets # None
  /\ \E d \in Advances(cfg) : gen' = [gen EXCEPT ![o] = gen_clear(gen[o], d)]
  /\ UNCHANGED <<sr, attached, cfg, img>>

\* The limit tests at the top of the loop.
GenLoop(o) ==
  /\ gen[o].pc = "loop"
  /\ gen' = [gen EXCEPT ![o] = gen_loop(gen[o], sr, cfg)[1]]
  /\ sr' = gen_loop(gen[o], sr, cfg)[2]
  /\ UNCHANGED <<attached, cfg, img>>

\* The render call succeeds and the generator yields.
GenRender(o) ==
  /\ gen[o].pc = "render"
  /\ \E d \in Advances(cfg) :
       /\ gen' = [gen EXCEPT ![o] = gen_render(gen[o], sr, cfg, d)[1]]
       /\ sr' = gen_render(gen[o], sr, cfg, d)[2]
  /\ img' = [img EXCEPT !.rendered = [a \in AovNames |-> TRUE]]
  /\ UNCHANGED <<attached, cfg>>

\* A native call of the settings-apply, the clear or the render call fails
\* (core_operations(raise_error=True)).
GenFail(o) ==
  /\ gen[o].pc \in {"apply", "clear", "render"}
  /\ gen' = [gen EXCEPT ![o] = gen_fail(gen[o])]
  /\ UNCHANGED <<sr, attached, cfg, img>>

(***************************************************************************)
(* SpecSR: one SceneRenderer used by one caller: update_render_resolution, *)
(* render_proc() and next() on the generator it returned.                  *)
(***************************************************************************)
SRInit ==
  /\ sr = SceneRendererInit
  /\ attached = {}
  /\ cfg \in SRConfigs
  /\ gen = [o \in Callers |-> NoGen]
  /\ sq_pc = "idle"
  /\ sq_arg = None
  /\ sq_detached = None
  /\ img = ImgInit
  /\ ub_field = "render_region"
  /\ ub_block = UpdateDataInit[ub_field]
  /\ ub_last = NoCall
  /\ ub_rep = 0
  /\ ub_first = UpdateBlock(None, FALSE)
  /\ co = CoordinatorInit
  /\ th = [t \in Threads |-> NoThread]
  /\ locks = NoLocks
  /\ host = HostInit
  /\ hist = HistInit
  /\ er = ERInit0

SRIdle == sq_pc = "idle" /\ gen[0].pc \notin Running

\* update_render_resolution(render_resolution), up to the detach.  The caller
\* restarts after it: the generator it held is discarded.
SRUpdateRenderResolution(render_resolution) ==
  /\ SRIdle
  /\ sr' = urr_detach(sr, attached)[1]
  /\ attached' = urr_detach(sr, attached)[2]
  /\ sq_pc' = "urr_create"
  /\ sq_arg' = render_resolution
  /\ sq_detached' = IF sr.render_targets \in attached THEN sr.render_targets ELSE None
  /\ gen' = [gen EXCEPT ![0] = NoGen]
  /\ UNCHANGED <<cfg, img, notSR>>

\* The new RenderTargets and RenderLayers are made.
SRCreateTargets ==
  /\ sq_pc = "urr_create"
  /\ sr' = urr_create(sr, attached, sq_arg)
  /\ sq_pc' = "urr_attach"
  /\ UNCHANGED <<attached, cfg, gen, sq_arg, sq_detached, img, notSR>>

\* Making the RenderTargets raises: the resolution is set, nothing else.
SRCreateTargetsFail ==
  /\ sq_pc = "urr_create"
  /\ sr' = [sr EXCEPT !.resolution = sq_arg]
  /\ sq_pc' = "idle"
  /\ UNCHANGED <<attached, cfg, gen, sq_arg, sq_detached, img, notSR>>

\* attach_render_target.
SRAttach ==
  /\ sq_pc = "urr_attach"
  /\ attached' = urr_attach(sr, attached)
  /\ sq_pc' = "idle"
  /\ UNCHANGED <<sr, cfg, gen, sq_arg, sq_detached, img, notSR>>

\* render_proc(): a fresh generator; the one held before is discarded.
SRRenderProc ==
  /\ SRIdle
  /\ gen[0].pc # "created"
  /\ gen' = [gen EXCEPT ![0] = gen_create]
  /\ UNCHANGED <<sr, attached, cfg, sq_pc, sq_arg, sq_detached, img, notSR>>

\* next() on the generator.
SRNextCall == SRIdle /\ GenNext(0) /\ UNCHANGED <<sq_pc, sq_arg, sq_detached, notSR>>

SRGenStep ==
  /\ \/ GenApply(0)
     \/ GenClear(0)
     \/ GenLoop(0)
     \/ GenRender(0)
     \/ GenFail(0)
  /\ UNCHANGED <<sq_pc, sq_arg, sq_detached, notSR>>

\* get_image(aov_name) by the caller, between its other calls.
SRGetImage(aov_name) ==
  /\ SRIdle
  /\ \E outcome \in get_image_outcomes(sr, aov_name) :
       LET res == get_image(sr, aov_name, outcome, img.count + 1)
       IN /\ outcome = "image" => img.count < MaxImages
          /\ sr' = res[1]
          /\ img' = [count |-> IF outcome = "image" THEN img.count + 1 ELSE img.count,
                     last |-> [img.last EXCEPT ![aov_name] = res[2]],
                     rendered |-> [img.rendered EXCEPT ![aov_name] = FALSE],
                     call |-> [aov |-> aov_name, outcome |-> outcome, ret |-> res[2],
                               prev |-> img.last[aov_name],
                               rendered |-> img.rendered[aov_name]]]
  /\ UNCHANGED <<attached, cfg, gen, sq_pc, sq_arg, sq_detached, notSR>>

SRNext ==
  \/ \E r \in Resolutions : SRUpdateRenderResolution(r)
  \/ SRCreateTargets
  \/ SRCreateTargetsFail
  \/ SRAttach
  \/ SRRenderProc
  \/ SRNextCall
  \/ SRGenStep

(***************************************************************************)
(* SpecRP: SpecSR with a caller that goes on calling next() on the         *)
(* generator it holds, native calls that return, and a clock that a render *)
(* call under a time limit advances.                                       *)
(***************************************************************************)
\* A step of the generator; the render call of a timed cycle takes time
\* (the clock of the model stops at MaxTime).
RPGenStep ==
  /\ SRGenStep
  /\ (Timed(cfg) /\ gen[0].pc = "render" /\ gen'[0].pc = "yielded")
       => (gen'[0].elapsed > gen[0].elapsed \/ gen[0].elapsed = MaxTime)

RPNext ==
  \/ \E r \in Resolutions : SRUpdateRenderResolution(r)
  \/ SRCreateTargets
  \/ SRCreateTargetsFail
  \/ SRAttach
  \/ SRRenderProc
  \/ SRNextCall
  \/ RPGenStep

(***************************************************************************)
(* SpecIM: SpecSR with the caller reading images too, under the settings   *)
(* IMConfigs.                                                              *)
(***************************************************************************)
\* No limit, an iteration limit of 1 or 2, a time limit.
IMConfigs ==
  {NoLimitConfig}
  \cup {Config(TRUE, "ITER", n, 0, 1, 1, "gpu", FALSE, FALSE) : n \in 1..2}
  \cup {Config(TRUE, "TIME", 1, MaxTime, 1, 1, "gpu", FALSE, FALSE)}

IMInit ==
  /\ sr = SceneRendererInit
  /\ attached = {}
  /\ cfg \in IMConfigs
  /\ gen = [o \in Callers |-> NoGen]
  /\ sq_pc = "idle"
  /\ sq_arg = None
  /\ sq_detached = None
  /\ img = ImgInit
  /\ ub_field = "render_region"
  /\ ub_block = UpdateDataInit[ub_field]
  /\ ub_last = NoCall
  /\ ub_rep = 0
  /\ ub_first = UpdateBlock(None, FALSE)
  /\ co = CoordinatorInit
  /\ th = [t \in Threads |-> NoThread]
  /\ locks = NoLocks
  /\ host = HostInit
  /\ hist = HistInit
  /\ er = ERInit0

IMNext ==
  \/ \E r \in Resolutions : SRUpdateRenderResolution(r)
  \/ SRCreateTargets
  \/ SRCreateTargetsFail
  \/ SRAttach
  \/ SRRenderProc
  \/ SRNextCall
  \/ SRGenStep
  \/ \E a \in AovNames : SRGetImage(a)

----------------------------------------------------------------------------
(***************************************************************************)
(* Spec: SceneRendererThreaded.  The worker threads.                       *)
(***************************************************************************)

\* Mutant: the need_scene_redraw setter clears the event and drops the value.
set_need_scene_redraw_dropped(c, value) ==
  [c EXCEPT !.render_completed_event = FALSE]

\* The need_scene_redraw property setter: the event is cleared as well.
set_need_scene_redraw(c, value) ==
  [c EXCEPT !.render_completed_event = FALSE, !.need_scene_redraw = value]

\* Thread t leaves every `with` block it is in.
release_all(l, t) ==
  [update_lock |-> l.update_lock \ {t},
   update_data_lock |-> l.update_data_lock \ {t},
   image_lock |-> l.image_lock \ {t}]

\* Mutant: an error ends thread t with its locks still held.
Crash_keeps_locks(t) ==
  /\ th' = [th EXCEPT ![t].pc = "crashed"]
  /\ UNCHANGED locks

\* An error ends thread t: the `with` blocks release their locks and run()
\* is left.
Crash(t) ==
  /\ th' = [th EXCEPT ![t].pc = "crashed"]
  /\ locks' = release_all(locks, t)

\* Mutant: render_proc enters its first check_updates without update_lock.
WRun_without_lock(t) ==
  /\ th[t].pc = "run"
  /\ IF th[t].terminate_event
     THEN /\ th' = [th EXCEPT ![t].pc = "exited"]
          /\ UNCHANGED <<locks, gen>>
     ELSE /\ gen' = [gen EXCEPT ![t] = gen_create]
          /\ locks' = [locks EXCEPT !.update_lock = {t}]
          /\ th' = [th EXCEPT ![t].pc = "cu_begin", ![t].site = "first"]
  /\ UNCHANGED <<co, host, hist, sr, attached, cfg, notTH>>

\* RenderThread.run: terminate_event.wait(); unless it is set, render_proc()
\* up to line 503: a fresh generator, update_lock taken.
WRun(t) ==
  /\ th[t].pc = "run"
  /\ IF th[t].terminate_event
     THEN /\ th' = [th EXCEPT ![t].pc = "exited"]
          /\ UNCHANGED <<locks, gen>>
     ELSE /\ locks.update_lock = {}
          /\ gen' = [gen EXCEPT ![t] = gen_create]
          /\ locks' = [locks EXCEPT !.update_lock = {t}]
          /\ th' = [th EXCEPT ![t].pc = "cu_begin", ![t].site = "first"]
  /\ UNCHANGED <<co, host, hist, sr, attached, cfg, notTH>>

\* check_updates, lines 542-564: update_data_lock taken, then the resolution
\* branch (with a pending aov folded in), or else the aov branch.
WCheckBegin(t) ==
  LET ud == co.update_data
      res == ud["render_resolution"]
      aov == ud["aov"]
      pend == {f \in Fields : ud[f].has_value}
      begun == [NoCheck EXCEPT !.by = t, !.pend = pend]
  IN
  /\ th[t].pc = "cu_begin"
  /\ locks.update_data_lock = {}
  /\ IF res.has_value
     THEN /\ co' = [co EXCEPT
                 !.applied = [co.applied EXCEPT
                     !["render_resolution"] = res.value,
                     !["aov"] = IF aov.has_value THEN aov.value ELSE @],
                 !.update_data = [ud EXCEPT
                     !["render_resolution"] = pop_value(res),
                     !["aov"] = IF aov.has_value THEN pop_value(aov) ELSE @]]
          /\ sr' = IF aov.has_value THEN [sr EXCEPT !.aov_settings = aov.value] ELSE sr
          /\ th' = [th EXCEPT ![t].pc = "cu_img"]
          /\ locks' = [locks EXCEPT !.update_data_lock = {t}]
          /\ hist' = [hist EXCEPT
                 !.pair.stage = IF @ = 1 THEN 0 ELSE @,
                 !.cu = [begun EXCEPT !.order =
                           IF aov.has_value THEN <<"render_resolution", "aov">>
                           ELSE <<"render_resolution">>]]
     ELSE IF aov.has_value
     THEN IF sr.render_layers = NoLayers
          THEN \* render_layers.update on None raises
               /\ co' = [co EXCEPT !.applied["aov"] = aov.value,
                                   !.update_data["aov"] = pop_value(aov)]
               /\ sr' = [sr EXCEPT !.aov_settings = aov.value]
               /\ Crash(t)
               /\ hist' = [hist EXCEPT !.cu = [begun EXCEPT !.order = <<"aov">>]]
          ELSE /\ co' = set_need_scene_redraw(
                           [co EXCEPT !.applied["aov"] = aov.value,
                                      !.update_data["aov"] = pop_value(aov)], TRUE)
               /\ sr' = [sr EXCEPT !.aov_settings = aov.value,
                                   !.render_layers.aov = aov.value]
               /\ th' = [th EXCEPT ![t].pc = "cu_rest"]
               /\ locks' = [locks EXCEPT !.update_data_lock = {t}]
               /\ hist' = [hist EXCEPT !.cu = [begun EXCEPT !.order = <<"aov">>,
                                                            !.incr = TRUE]]
     ELSE /\ th' = [th EXCEPT ![t].pc = "cu_rest"]
          /\ locks' = [locks EXCEPT !.update_data_lock = {t}]
          /\ hist' = [hist EXCEPT !.cu = begun]
          /\ UNCHANGED <<co, sr>>
  /\ UNCHANGED <<host, attached, cfg, gen, notTH>>

\* check_updates, lines 554-555: image_lock taken, and
\* scene_renderer.update_render_resolution(self.render_resolution) up to its
\* detach.
WImageLock(t) ==
  /\ th[t].pc = "cu_img"
  /\ locks.image_lock = {}
  /\ locks' = [locks EXCEPT !.image_lock = {t}]
  /\ sr' = urr_detach(sr, attached)[1]
  /\ attached' = urr_detach(sr, attached)[2]
  /\ th' = [th EXCEPT ![t].pc = "cu_create", ![t].arg = co.applied["render_resolution"]]
  /\ hist' = [hist EXCEPT !.pair.invoked =
                 IF hist.pair.stage = 2 /\ Len(@) < 2
                 THEN Append(@, co.applied["render_resolution"]) ELSE @,
                          !.cu.folded = (sr.aov_settings = co.applied["aov"])]
  /\ UNCHANGED <<co, host, cfg, gen, notTH>>

\* The new RenderTargets and RenderLayers are made.
WCreateTargets(t) ==
  /\ th[t].pc = "cu_create"
  /\ sr' = urr_create(sr, attached, th[t].arg)
  /\ th' = [th EXCEPT ![t].pc = "cu_attach"]
  /\ UNCHANGED <<co, locks, host, hist, attached, cfg, gen, notTH>>

\* Making the RenderTargets raises: the error leaves check_updates and the
\* tick.
WCreateTargetsFail(t) ==
  /\ th[t].pc = "cu_create"
  /\ sr' = [sr EXCEPT !.resolution = th[t].arg]
  /\ Crash(t)
  /\ UNCHANGED <<co, host, hist, attached, cfg, gen, notTH>>

\* Mutant: image_lock is not released after the render targets were made.
WAttach_keeps_image_lock(t) ==
  /\ th[t].pc = "cu_attach"
  /\ attached' = urr_attach(sr, attached)
  /\ co' = set_need_scene_redraw(co, TRUE)
  /\ th' = [th EXCEPT ![t].pc = "cu_rest"]
  /\ UNCHANGED <<locks, host, hist, sr, cfg, gen, notTH>>

\* attach_render_target; image_lock released; line 556.
WAttach(t) ==
  /\ th[t].pc = "cu_attach"
  /\ attached' = urr_attach(sr, attached)
  /\ locks' = [locks EXCEPT !.image_lock = {}]
  /\ co' = set_need_scene_redraw(co, TRUE)
  /\ th' = [th EXCEPT ![t].pc = "cu_rest"]
  /\ UNCHANGED <<host, hist, sr, cfg, gen, notTH>>

\* check_updates, lines 567-576: the region and the camera; update_data_lock
\* released.
WCheckRest(t) ==
  LET ud == co.update_data
      reg == ud["render_region"]
      cam == ud["render_camera"]
      c1 == IF reg.has_value
            THEN set_need_scene_redraw(
                   [co EXCEPT !.applied["render_region"] = reg.value,
                              !.update_data["render_region"] = pop_value(reg)], TRUE)
            ELSE co
      c2 == IF cam.has_value
            THEN set_need_scene_redraw(
                   [c1 EXCEPT !.applied["render_camera"] = cam.value,
                              !.update_data["render_camera"] = pop_value(cam)], TRUE)
            ELSE c1
  IN
  /\ th[t].pc = "cu_rest"
  /\ co' = c2
  /\ sr' = IF reg.has_value THEN [sr EXCEPT !.region = reg.value] ELSE sr
  /\ locks' = [locks EXCEPT !.update_data_lock = {}]
  /\ th' = [th EXCEPT ![t].pc = IF th[t].site = "first" THEN "after_first" ELSE "after_loop"]
  /\ hist' = [hist EXCEPT !.ticked = [f \in Fields |-> TRUE],
                          !.pair.checked = (hist.pair.stage = 2) \/ @,
                          !.cu.order = @ \o (IF reg.has_value THEN <<"render_region">> ELSE <<>>)
                                         \o (IF cam.has_value THEN <<"render_camera">> ELSE <<>>),
                          !.cu.done = TRUE]
  /\ UNCHANGED <<host, attached, cfg, gen, notTH>>

\* render_proc, lines 506-509.
WAfterFirst(t) ==
  /\ th[t].pc = "after_first"
  /\ locks' = [locks EXCEPT !.update_lock = {}]
  /\ IF ~co.need_scene_redraw
     THEN /\ th' = [th EXCEPT ![t].pc = "run"]
          /\ UNCHANGED co
     ELSE /\ th' = [th EXCEPT ![t].pc = "while"]
          /\ co' = [co EXCEPT !.need_scene_redraw = FALSE,
                              !.render_completed_event = FALSE]
  /\ hist' = [hist EXCEPT !.fresh = @ \ {t}, !.cu = NoCheck]
  /\ UNCHANGED <<host, sr, attached, cfg, gen, notTH>>

\* Mutant: the loop does not test stop_requested.
WWhile_ignores_stop(t) ==
  /\ th[t].pc \in {"while", "sleep"}
  /\ locks.update_lock = {}
  /\ locks' = [locks EXCEPT !.update_lock = {t}]
  /\ th' = [th EXCEPT ![t].pc = "cu_begin", ![t].site = "loop"]
  /\ UNCHANGED <<co, host, hist, sr, attached, cfg, gen, notTH>>

\* render_proc, lines 511-514: the loop test (after the pacing sleep of line
\* 523, on a later pass), then update_lock taken for check_updates.
WWhile(t) ==
  /\ th[t].pc \in {"while", "sleep"}
  /\ IF co.stop_requested
     THEN /\ th' = [th EXCEPT ![t].pc = "fin"]
          /\ UNCHANGED locks
     ELSE /\ locks.update_lock = {}
          /\ locks' = [locks EXCEPT !.update_lock = {t}]
          /\ th' = [th EXCEPT ![t].pc = "cu_begin", ![t].site = "loop"]
  /\ UNCHANGED <<co, host, hist, sr, attached, cfg, gen, notTH>>

\* Mutant: the loop steps the generator whether a redraw is needed or not.
WAfterLoop_ignores_redraw(t) ==
  /\ th[t].pc = "after_loop"
  /\ GenNext(t)
  /\ th' = [th EXCEPT ![t].pc = "next"]
  /\ hist' = [hist EXCEPT !.cu = NoCheck]
  /\ UNCHANGED <<co, locks, host, notTH>>

\* render_proc, lines 516-519: return on a redraw, else next(render_iter).
WAfterLoop(t) ==
  /\ th[t].pc = "after_loop"
  /\ IF co.need_scene_redraw
     THEN /\ th' = [th EXCEPT ![t].pc = "run"]
          /\ locks' = [locks EXCEPT !.update_lock = {}]
          /\ UNCHANGED <<sr, gen, attached, cfg>>
     ELSE /\ GenNext(t)
          /\ th' = [th EXCEPT ![t].pc = "next"]
          /\ UNCHANGED locks
  /\ hist' = [hist EXCEPT !.cu = NoCheck]
  /\ UNCHANGED <<co, host, notTH>>

\* Inside next(render_iter): the generator runs to its yield, its end or an
\* error.
WGenStep(t) ==
  /\ th[t].pc = "next"
  /\ \/ GenApply(t)
     \/ GenClear(t)
     \/ GenLoop(t)
     \/ GenRender(t)
     \/ GenFail(t)
  /\ UNCHANGED <<co, th, locks, host, hist, notGen>>

\* next(render_iter) has yielded: update_lock released, line 523 next.
WYielded(t) ==
  /\ th[t].pc = "next"
  /\ gen[t].pc = "yielded"
  /\ locks' = [locks EXCEPT !.update_lock = {}]
  /\ th' = [th EXCEPT ![t].pc = "sleep"]
  /\ UNCHANGED <<co, host, hist, sr, attached, cfg, gen, notTH>>

\* next(render_iter) raised StopIteration: lines 524-525.
WStopIteration(t) ==
  /\ th[t].pc = "next"
  /\ gen[t].pc = "done"
  /\ locks' = [locks EXCEPT !.update_lock = {}]
  /\ th' = [th EXCEPT ![t].pc = "fin"]
  /\ UNCHANGED <<co, host, hist, sr, attached, cfg, gen, notTH>>

\* next(render_iter) raised another error: it leaves render_proc and run().
WError(t) ==
  /\ th[t].pc = "next"
  /\ gen[t].pc = "failed"
  /\ Crash(t)
  /\ UNCHANGED <<co, host, hist, sr, attached, cfg, gen, notTH>>

\* render_proc, lines 527-528.
WFin(t) ==
  /\ th[t].pc = "fin"
  /\ co' = [co EXCEPT !.render_completed_event = TRUE]
  /\ th' = [th EXCEPT ![t].pc = "run"]
  /\ UNCHANGED <<locks, host, hist, sr, attached, cfg, gen, notTH>>

Worker(t) ==
  \/ WRun(t)
  \/ WCheckBegin(t)
  \/ WImageLock(t)
  \/ WCreateTargets(t)
  \/ WCreateTargetsFail(t)
  \/ WAttach(t)
  \/ WCheckRest(t)
  \/ WAfterFirst(t)
  \/ WWhile(t)
  \/ WAfterLoop(t)
  \/ WGenStep(t)
  \/ WYielded(t)
  \/ WStopIteration(t)
  \/ WError(t)
  \/ WFin(t)

(***************************************************************************)
(* Spec: SceneRendererThreaded.  The host thread.                          *)
(***************************************************************************)
HostIdle == host.pc = "idle" /\ host.ops < MaxHostOps

\* The thread start() made last.
LastStarted == Cardinality({t \in Threads : th[t].pc # "none"})

\* _start, lines 486-489; start() sets the sleep delay only.
start_thread(c, t) == [c EXCEPT !.stop_requested = FALSE, !.thread = t]

\* start().
HStart ==
  /\ HostIdle
  /\ LastStarted < MaxThreads
  /\ co' = start_thread(co, LastStarted + 1)
  /\ th' = [th EXCEPT ![LastStarted + 1] = RenderThread]
  /\ host' = [host EXCEPT !.ops = @ + 1]
  /\ hist' = [hist EXCEPT !.crash_stopped = FALSE, !.fresh = @ \cup {LastStarted + 1}]
  /\ UNCHANGED <<locks, sr, attached, cfg, gen, notTH>>

\* start_noninteractive(): need_scene_redraw = True, then _start.
HStartNoninteractive ==
  /\ HostIdle
  /\ LastStarted < MaxThreads
  /\ co' = start_thread(set_need_scene_redraw(co, TRUE), LastStarted + 1)
  /\ th' = [th EXCEPT ![LastStarted + 1] = RenderThread]
  /\ host' = [host EXCEPT !.ops = @ + 1]
  /\ hist' = [hist EXCEPT !.crash_stopped = FALSE, !.fresh = @ \cup {LastStarted + 1}]
  /\ UNCHANGED <<locks, sr, attached, cfg, gen, notTH>>

\* Mutant: stop() terminates and joins whether there is a thread or not.
stop_has_thread_always(c) == TRUE

\* stop(), line 494: `if self.thread:`.
stop_has_thread(c) == c.thread # 0

\* stop(), lines 493-494.
HStop ==
  /\ HostIdle
  /\ co' = [co EXCEPT !.stop_requested = TRUE]
  /\ host' = [host EXCEPT !.ops = @ + 1,
                          !.pc = IF stop_has_thread(co) THEN "stop_terminate" ELSE "idle"]
  /\ hist' = [hist EXCEPT !.stop_at = IF co.thread # 0 THEN th[co.thread].pc ELSE "none"]
  /\ UNCHANGED <<th, locks, sr, attached, cfg, gen, notTH>>

\* stop(), line 495: thread.terminate().
HStopTerminate ==
  /\ host.pc = "stop_terminate"
  /\ th' = [th EXCEPT ![co.thread].terminate_event = TRUE]
  /\ host' = [host EXCEPT !.pc = "stop_join"]
  /\ UNCHANGED <<co, locks, hist, sr, attached, cfg, gen, notTH>>

\* Mutant: stop() does not wait for the thread.
join_returns_at_once(t) == TRUE

\* Thread.join() returns when the thread has ended.
join_returns(t) == th[t].pc \in Dead

\* stop(), lines 496-497: thread.join(), thread = None.
HStopJoin ==
  /\ host.pc = "stop_join"
  /\ join_returns(co.thread)
  /\ co' = [co EXCEPT !.thread = 0]
  /\ host' = [host EXCEPT !.pc = "idle"]
  /\ hist' = [hist EXCEPT !.joined = @ \cup {co.thread},
                          !.crash_stopped = (th[co.thread].pc = "crashed")]
  /\ UNCHANGED <<th, locks, sr, attached, cfg, gen, notTH>>

\* The values the host may pass for a field: a region may be None.  The code
\* only compares the values of one field with each other, so the host takes
\* them in the order of first use: a value it has passed before, or the
\* least one it has not.
Args(f) ==
  (IF f = "render_region" THEN {None} ELSE {}) \cup (1..Min(hist.used[f] + 1, MaxVal))

\* update_render_resolution / update_render_region / update_aov /
\* update_render_camera, up to the call of update_block: the applied value
\* is read as an argument, before update_data_lock is taken.
HUpdate(f, v) ==
  /\ HostIdle
  /\ host' = [host EXCEPT !.ops = @ + 1, !.pc = "update_block",
                          !.f = f, !.cur = co.applied[f], !.new = v]
  /\ hist' = [hist EXCEPT !.used[f] = Max(@, v)]
  /\ UNCHANGED <<co, th, locks, sr, attached, cfg, gen, notTH>>

\* The two-call pattern after a completed update_render_resolution(new),
\* `now` being the applied resolution.
pair_after_call(pr, now, new) ==
  IF new = now THEN [pr EXCEPT !.stage = 0]
  ELSE IF pr.stage = 1 /\ new = pr.r1 THEN pr
  ELSE IF pr.stage = 1
       THEN [stage |-> 2, r1 |-> pr.r1, r2 |-> new, invoked |-> <<>>, checked |-> FALSE]
  ELSE IF pr.stage = 2 /\ pr.invoked = <<>> /\ ~pr.checked /\ new = pr.r2 THEN pr
  ELSE IF pr.stage = 2 /\ pr.invoked = <<>> /\ ~pr.checked
       THEN [stage |-> 2, r1 |-> pr.r2, r2 |-> new, invoked |-> <<>>, checked |-> FALSE]
  ELSE [stage |-> 1, r1 |-> new, r2 |-> None, invoked |-> <<>>, checked |-> FALSE]

\* Mutant: update_block marks a redraw, as the set_* operations' callers do.
HUpdateBlock_marks_redraw ==
  /\ host.pc = "update_block"
  /\ locks.update_data_lock = {}
  /\ co' = set_need_scene_redraw(
             [co EXCEPT !.update_data[host.f] =
                 update_block(host.f, @, host.cur, host.new)], TRUE)
  /\ host' = [host EXCEPT !.pc = "idle"]
  /\ hist' = [hist EXCEPT !.called[host.f] = TRUE,
                          !.last[host.f] = host.new,
                          !.ticked[host.f] = FALSE,
                          !.pair = IF host.f = "render_resolution"
                                   THEN pair_after_call(@, co.applied["render_resolution"], host.new)
                                   ELSE @]
  /\ UNCHANGED <<th, locks, sr, attached, cfg, gen, notTH>>

\* Mutant: update_block waits for update_lock as well.
HUpdateBlock_under_update_lock ==
  /\ host.pc = "update_block"
  /\ locks.update_data_lock = {}
  /\ locks.update_lock = {}
  /\ co' = [co EXCEPT !.update_data[host.f] =
                 update_block(host.f, @, host.cur, host.new)]
  /\ host' = [host EXCEPT !.pc = "idle"]
  /\ hist' = [hist EXCEPT !.called[host.f] = TRUE,
                          !.last[host.f] = host.new,
                          !.ticked[host.f] = FALSE,
                          !.pair = IF host.f = "render_resolution"
                                   THEN pair_after_call(@, co.applied["render_resolution"], host.new)
                                   ELSE @]
  /\ UNCHANGED <<th, locks, sr, attached, cfg, gen, notTH>>

\* SceneRendererThreaded.update_block: update_data.update_block under
\* update_data_lock.
HUpdateBlock ==
  /\ host.pc = "update_block"
  /\ locks.update_data_lock = {}
  /\ co' = [co EXCEPT !.update_data[host.f] =
                 update_block(host.f, @, host.cur, host.new)]
  /\ host' = [host EXCEPT !.pc = "idle"]
  /\ hist' = [hist EXCEPT !.called[host.f] = TRUE,
                          !.last[host.f] = host.new,
                          !.ticked[host.f] = FALSE,
                          !.pair = IF host.f = "render_resolution"
                                   THEN pair_after_call(@, co.applied["render_resolution"], host.new)
                                   ELSE @]
  /\ UNCHANGED <<th, locks, sr, attached, cfg, gen, notTH>>

\* set_render_resolution, lines 580-581: the applied value is set and
\* SceneRenderer.update_render_resolution run by the host, no lock held.
HSetRenderResolution(v) ==
  /\ HostIdle
  /\ co' = [co EXCEPT !.applied["render_resolution"] = v]
  /\ sr' = urr_detach(sr, attached)[1]
  /\ attached' = urr_detach(sr, attached)[2]
  /\ host' = [host EXCEPT !.ops = @ + 1, !.pc = "set_create",
                          !.f = "render_resolution", !.new = v]
  /\ hist' = [hist EXCEPT !.called["render_resolution"] = FALSE,
                          !.pair.stage = 0,
                          !.used["render_resolution"] = Max(@, v)]
  /\ UNCHANGED <<th, locks, cfg, gen, notTH>>

HCreateTargets ==
  /\ host.pc = "set_create"
  /\ sr' = urr_create(sr, attached, host.new)
  /\ host' = [host EXCEPT !.pc = "set_attach"]
  /\ UNCHANGED <<co, th, locks, hist, attached, cfg, gen, notTH>>

\* Making the RenderTargets raises, to the caller of set_render_resolution.
HCreateTargetsFail ==
  /\ host.pc = "set_create"
  /\ sr' = [sr EXCEPT !.resolution = host.new]
  /\ host' = [host EXCEPT !.pc = "idle"]
  /\ UNCHANGED <<co, th, locks, hist, attached, cfg, gen, notTH>>

HAttach ==
  /\ host.pc = "set_attach"
  /\ attached' = urr_attach(sr, attached)
  /\ host' = [host EXCEPT !.pc = "idle"]
  /\ UNCHANGED <<co, th, locks, hist, sr, cfg, gen, notTH>>

\* What is_render_completed() returns to a host that calls it in this state
\* (lines 462-470): self.thread.is_alive() raises AttributeError when
\* self.thread is None.  The call changes nothing.
is_render_completed(c) ==
  IF c.thread = 0 THEN "AttributeError"
  ELSE IF th[c.thread].pc \in Dead THEN "true"
  ELSE IF c.render_completed_event THEN "true" ELSE "false"

Host ==
  \/ HStart
  \/ HStartNoninteractive
  \/ HStop
  \/ HStopTerminate
  \/ HStopJoin
  \/ \E f \in Fields : \E v \in Args(f) : HUpdate(f, v)
  \/ HUpdateBlock
  \/ \E v \in Args("render_resolution") : HSetRenderResolution(v)
  \/ HCreateTargets
  \/ HCreateTargetsFail
  \/ HAttach

\* The settings of the threaded specification: no limit, or an iteration
\* limit.
ThreadedConfigs ==
  {NoLimitConfig}
  \cup {Config(TRUE, "ITER", n, 0, 1, 1, "gpu", FALSE, FALSE) : n \in ThreadedIterLimits}

Init ==
  /\ co = CoordinatorInit
  /\ th = [t \in Threads |-> NoThread]
  /\ locks = NoLocks
  /\ host = HostInit
  /\ hist = HistInit
  /\ er = ERInit0
  /\ sr = SceneRendererInit
  /\ attached = {}
  /\ cfg \in ThreadedConfigs
  /\ gen = [o \in Callers |-> NoGen]
  /\ sq_pc = "idle"
  /\ sq_arg = None
  /\ sq_detached = None
  /\ img = ImgInit
  /\ ub_field = "render_region"
  /\ ub_block = UpdateDataInit[ub_field]
  /\ ub_last = NoCall
  /\ ub_rep = 0
  /\ ub_first = UpdateBlock(None, FALSE)

Next ==
  \/ Host
  \/ \E t \in Threads : Worker(t)

Spec == Init /\ [][Next]_vars

(***************************************************************************)
(* SpecLK: Spec with a host that also reads images: the host thread as     *)
(* thread 0 takes image_lock, resolves the image and releases the lock.    *)
(***************************************************************************)
\* The host thread, as a holder of locks.
HostThread == 0

\* The host comes to `with image_lock:`.
HReadImage ==
  /\ HostIdle
  /\ host' = [host EXCEPT !.ops = @ + 1, !.pc = "read_lock"]
  /\ UNCHANGED <<co, th, locks, hist, sr, attached, cfg, gen, notTH>>

\* The host takes image_lock.
HReadImageLocked ==
  /\ host.pc = "read_lock"
  /\ locks.image_lock = {}
  /\ locks' = [locks EXCEPT !.image_lock = {HostThread}]
  /\ host' = [host EXCEPT !.pc = "read_image"]
  /\ UNCHANGED <<co, th, hist, sr, attached, cfg, gen, notTH>>

\* The image is resolved; the host releases image_lock.
HReadImageDone ==
  /\ host.pc = "read_image"
  /\ locks' = [locks EXCEPT !.image_lock = {}]
  /\ host' = [host EXCEPT !.pc = "idle"]
  /\ UNCHANGED <<co, th, hist, sr, attached, cfg, gen, notTH>>

LKNext ==
  \/ Host
  \/ HReadImage
  \/ HReadImageLocked
  \/ HReadImageDone
  \/ \E t \in Threads : Worker(t)

SpecLK == Init /\ [][LKNext]_vars

\* Spec with the scheduling the threads have: every worker thread that can
\* take a step takes one in the end (its native calls return), and a host
\* inside stop() goes on to terminate() and join().
SpecFair ==
  /\ Init
  /\ [][Next]_vars
  /\ \A t \in Threads : WF_vars(Worker(t))
  /\ WF_vars(HStopTerminate)
  /\ WF_vars(HStopJoin)

----------------------------------------------------------------------------
(***************************************************************************)
(* SpecER: one ImagePixels of any source image and region, export_region   *)
(* called on it with any bounds, and called again with the same bounds.    *)
(***************************************************************************)
\* The regions an ImagePixels is made with: the whole image, or its first
\* pixel.
Regions(iw, ih) == {<<0, 0, iw - 1, ih - 1>>, <<0, 0, 0, 0>>}

\* The bounds a caller passes.
Bounds == (0 - 1)..(MaxDim + 1)

ERInit ==
  /\ \E iw \in 0..MaxDim, ih \in 0..MaxDim : \E region \in Regions(iw, ih) :
       er = [ip |-> ImagePixels(iw, ih, region), images |-> {}, call |-> NoExport]
  /\ ub_field = "render_region"
  /\ ub_block = UpdateDataInit[ub_field]
  /\ ub_last = NoCall
  /\ ub_rep = 0
  /\ ub_first = UpdateBlock(None, FALSE)
  /\ sr = SceneRendererInit
  /\ attached = {}
  /\ cfg = NoLimitConfig
  /\ gen = [o \in Callers |-> NoGen]
  /\ sq_pc = "idle"
  /\ sq_arg = None
  /\ sq_detached = None
  /\ img = ImgInit
  /\ co = CoordinatorInit
  /\ th = [t \in Threads |-> NoThread]
  /\ locks = NoLocks
  /\ host = HostInit
  /\ hist = HistInit

\* The first export_region call.
ERExport(x1, y1, x2, y2) ==
  LET res == export_region(er.ip, er.images, x1, y1, x2, y2)
  IN /\ er.call.called = 0
     /\ er' = [er EXCEPT !.images = res.images,
                         !.call = [called |-> 1, args |-> <<x1, y1, x2, y2>>,
                                   ret |-> res.ret,
                                   created |-> res.images # er.images]]
     /\ UNCHANGED notER

\* The same call once more.
ERExportAgain ==
  LET a == er.call.args
      res == export_region(er.ip, er.images, a[1], a[2], a[3], a[4])
  IN /\ er.call.called = 1
     /\ er' = [er EXCEPT !.images = res.images,
                         !.call = [called |-> 2, args |-> a, ret |-> res.ret,
                                   created |-> res.images # er.images]]
     /\ UNCHANGED notER

ERNext ==
  \/ \E x1 \in Bounds, y1 \in Bounds, x2 \in Bounds, y2 \in Bounds :
       ERExport(x1, y1, x2, y2)
  \/ ERExportAgain

SpecER == ERInit /\ [][ERNext]_vars

SpecUB == UBInit /\ [][UBNext]_vars

SpecSR == SRInit /\ [][SRNext]_vars

SpecIM == IMInit /\ [][IMNext]_vars

SpecRP ==
  /\ SRInit
  /\ [][RPNext]_vars
  /\ WF_vars(SRNextCall)
  /\ WF_vars(RPGenStep)

----------------------------------------------------------------------------
\* C1: update_block follows the four-case table, equality being the block's
\* predicate: (1) pending equal to new: slot unchanged; (2) new equal to
\* current, nothing pending: slot unchanged and empty; (3) new equal to
\* current, something pending: the slot is cleared; (4) otherwise new is
\* stored as pending.
C1_FourCaseTable ==
  ub_last.called =>
    LET pre == ub_last.pre
        post == ub_block
        pendingIsNew == pre.has_value /\ equal(ub_field, pre.value, ub_last.new)
        newIsCurrent == equal(ub_field, ub_last.cur, ub_last.new)
    IN /\ pendingIsNew => post = pre
       /\ (~pendingIsNew /\ newIsCurrent /\ ~pre.has_value) =>
             (post = pre /\ ~post.has_value)
       /\ (~pendingIsNew /\ newIsCurrent /\ pre.has_value) =>
             (~post.has_value /\ post.value = pre.value)
       /\ (~pendingIsNew /\ ~newIsCurrent) =>
             (post.has_value /\ post.value = ub_last.new)

\* A revert has cancelled a pending value (case 3 has happened).
C1_Witness ==
  /\ ub_last.called
  /\ ub_field = "render_resolution"
  /\ ub_last.pre.has_value
  /\ ub_last.pre.value # ub_last.new
  /\ ub_last.cur = ub_last.new
  /\ ~ub_block.has_value

\* C4: repeating update_block(block, current, V) with no pop between leaves
\* the slot as the first call left it, and a value pending afterwards is V.
C4_Idempotent ==
  ub_rep >= 1 =>
    /\ ub_block = ub_first
    /\ ub_block.has_value => ub_block.value = ub_last.new

\* The same call was made three times and left V pending over another value.
C4_Witness ==
  /\ ub_rep >= 3
  /\ ub_block.has_value
  /\ ub_block.value = ub_last.new
  /\ ub_last.new # None

----------------------------------------------------------------------------
IterLimited == cfg.enable /\ cfg.type = "ITER"

TimeLimited == cfg.enable /\ cfg.type = "TIME" /\ cfg.time > 0

\* C8 as stated: with an iteration limit N the exhausted generator has
\* yielded exactly N times, whatever the sample settings.
C8_YieldsExactlyN ==
  (IterLimited /\ gen[0].pc = "done") => gen[0].yields = cfg.iterations

\* C8: with an iteration limit N the exhausted generator has yielded exactly
\* max(1, floor(N * user samples / effective samples)) times, the effective
\* samples being 100 for a production render on GPU plus CPU, the GPU count
\* for another production render with more GPUs than user samples, and the
\* user samples otherwise; so exactly N times when the effective samples are
\* the user samples.
C8_YieldsScaledN ==
  (IterLimited /\ gen[0].pc = "done") =>
    LET mixed == cfg.is_production /\ cfg.device_type = "gpu" /\ cfg.device_type_plus_cpu
        byGPU == ~mixed /\ cfg.is_production /\ cfg.numGPUs > cfg.samples
        effective == IF mixed THEN 100 ELSE IF byGPU THEN cfg.numGPUs ELSE cfg.samples
    IN /\ gen[0].yields = Max(1, (cfg.iterations * cfg.samples) \div effective)
       /\ (~mixed /\ ~byGPU) => gen[0].yields = cfg.iterations

\* A production render with more GPUs than samples is exhausted after fewer
\* than N yields, but more than one.
C8_Witness ==
  /\ IterLimited
  /\ gen[0].pc = "done"
  /\ cfg.is_production
  /\ gen[0].yields > 1
  /\ gen[0].yields < cfg.iterations

\* C9: with a time limit T > 0 the generator yields at least once, and it
\* issues no render call once the time elapsed since the cycle started is
\* T or more.
C9_TimeLimit ==
  TimeLimited =>
    /\ gen[0].pc = "done" => gen[0].yields >= 1
    /\ gen[0].pc = "render" => gen[0].elapsed < cfg.time

\* C10: at most one render target set is attached to the render device, and
\* none is while update_render_resolution stands between its detach and its
\* attach.
C10_OneTargetSetAttached ==
  /\ Cardinality(attached) <= 1
  /\ attached \subseteq {sr.render_targets}
  /\ sq_pc \in {"urr_create", "urr_attach"} => attached = {}

\* A call that detached the previous render targets has attached new ones.
C10_Witness ==
  /\ sq_pc = "idle"
  /\ sq_detached # None
  /\ sr.render_targets # None
  /\ attached = {sr.render_targets}

----------------------------------------------------------------------------
\* C2 as stated: a field coalesces to the latest value: when the host's last
\* update_* call for a field is completed, a check_updates was completed
\* after it and the field's slot is empty, the applied value is the argument
\* of that call.
C2_CoalescesToLatest ==
  \A f \in Fields :
    ( /\ hist.called[f]
      /\ hist.ticked[f]
      /\ ~(host.pc = "update_block" /\ host.f = f)
      /\ ~co.update_data[f].has_value )
    => co.applied[f] = hist.last[f]

\* C3: after update_render_resolution(R1) and update_render_resolution(R2),
\* R1 # R2 and both other than the applied resolution, with no check_updates
\* consuming the slot between them, the workers invoke
\* SceneRenderer.update_render_resolution at most once, with R2; exactly
\* once when a check_updates is completed; and R1 is not applied.
C3_OneRestartWithR2 ==
  hist.pair.stage = 2 =>
    /\ hist.pair.invoked \in {<<>>, <<hist.pair.r2>>}
    /\ hist.pair.checked => hist.pair.invoked = <<hist.pair.r2>>
    /\ co.applied["render_resolution"] # hist.pair.r1

\* The two calls were made and a check_updates completed after them: one
\* invocation with R2, the render targets being of that resolution.
C3_Witness ==
  /\ hist.pair.stage = 2
  /\ hist.pair.checked
  /\ hist.pair.r1 # hist.pair.r2
  /\ hist.pair.invoked = <<hist.pair.r2>>
  /\ sr.resolution = hist.pair.r2

\* C5: a thread that a stop() has joined and returned from takes no further
\* step: no check_updates, no generator step, no render-target replacement.
C5_NoActionAfterStop ==
  [][\A t \in hist.joined : th'[t] = th[t] /\ gen'[t] = gen[t]]_vars

\* A stop() issued while the worker was inside next(render_iter) has
\* returned, the generator left suspended.
C5_Witness ==
  /\ hist.joined # {}
  /\ hist.stop_at = "next"
  /\ host.pc = "idle"
  /\ \E t \in hist.joined : gen[t].pc = "yielded"

\* C6 as stated: after a stop() that joined a worker an error had ended,
\* is_render_completed() returns true.
C6_CompletedAfterCrashStop ==
  (hist.crash_stopped /\ host.pc = "idle" /\ co.thread = 0)
    => is_render_completed(co) = "true"

\* C7 as stated: once an error in the generator has ended the worker of the
\* last start(), is_render_completed() returns true from then on.
C7_CompletedAfterError ==
  \A t \in Threads :
    (t = LastStarted /\ th[t].pc = "crashed" /\ gen[t].pc = "failed")
      => is_render_completed(co) = "true"

----------------------------------------------------------------------------
\* C11: a get_image(aov) that follows a get_image(aov) which returned an
\* image: with no render call completed between them it returns that same
\* object from the cache, resolving nothing; with a render call completed
\* between them it does not take the image from the cache, and the image a
\* resolve gives it is an object no earlier call returned.
C11_CacheHitUntilNextIteration ==
  (img.call.outcome # "none" /\ img.call.prev # NoImage) =>
    /\ ~img.call.rendered =>
         (img.call.outcome = "cached" /\ img.call.ret = img.call.prev)
    /\ img.call.rendered =>
         /\ img.call.outcome # "cached"
         /\ img.call.outcome = "image" =>
              (img.call.ret.id = img.count /\ img.call.ret.id > img.call.prev.id)

\* After an image of the default channel was returned and one more render
\* call completed, get_image resolved a new image.
C11_Witness ==
  /\ img.call.outcome = "image"
  /\ img.call.aov = "default"
  /\ img.call.prev # NoImage
  /\ img.call.rendered
  /\ img.call.ret # img.call.prev
  /\ gen[0].yields >= 2

\* C12 as stated: start() and start_noninteractive() mark a redraw as needed:
\* when the worker they launched comes to the test of line 508 in its first
\* render_proc, the redraw flag is set, and the worker goes on to step the
\* generator.
C12_StartMarksRedraw ==
  \A t \in Threads :
    (t \in hist.fresh /\ th[t].pc = "after_first") => co.need_scene_redraw

\* C13: stop() waits for a thread only when there is one; a stop() with no
\* thread (a second stop() after a first, a stop() before any start())
\* returns at once and changes nothing but stop_requested, which it sets
\* again; a stop() that joined drops the thread handle; and a start()
\* launches a thread no stop() has joined, standing before run(), with
\* stop_requested reset.
C13_StopIdempotentRestartable ==
  /\ [](host.pc \in {"stop_terminate", "stop_join"} => co.thread # 0)
  /\ [][(HStop /\ co.thread = 0) =>
          /\ host'.pc = "idle"
          /\ co' = [co EXCEPT !.stop_requested = TRUE]
          /\ co.stop_requested => co' = co
          /\ UNCHANGED <<th, locks, sr, attached, gen>>]_vars
  /\ [][HStopJoin => (co'.thread = 0 /\ host'.pc = "idle")]_vars
  /\ [][(HStart \/ HStartNoninteractive) =>
          /\ co'.thread \notin hist.joined
          /\ th[co'.thread] = NoThread
          /\ th'[co'.thread] = RenderThread
          /\ ~co'.stop_requested]_vars

\* The worker of a start() made after a stop() had joined the first worker
\* is inside check_updates.
C13_Witness ==
  /\ hist.joined = {1}
  /\ co.thread = 2
  /\ th[2].pc = "cu_rest"
  /\ ~co.stop_requested

\* C14 as stated: every live worker thread is the one self.thread refers to,
\* so at most one worker is live.
C14_OneLiveWorker ==
  \A t \in Threads : (th[t].pc \notin ({"none"} \cup Dead)) => co.thread = t

----------------------------------------------------------------------------
\* C15 as stated: export_region on a non-empty image of width W returns no
\* image and makes none in the context when x1 = x2, and when x1 and x2 are
\* both outside 0..W-1; for x1 < x2, y1 < y2 inside the image it returns an
\* image.
C15_ExportRegionBounds ==
  er.call.called >= 1 /\ ~is_empty(er.ip) =>
    LET x1 == er.call.args[1]
        y1 == er.call.args[2]
        x2 == er.call.args[3]
        y2 == er.call.args[4]
        W == er.ip.size[1]
        H == er.ip.size[2]
        outside(x) == x < 0 \/ x >= W
    IN /\ (x1 = x2 \/ (outside(x1) /\ outside(x2))) =>
            (er.call.ret = NoRprImage /\ er.images = {})
       /\ (0 <= x1 /\ x1 < x2 /\ x2 < W /\ 0 <= y1 /\ y1 < y2 /\ y2 < H) =>
            er.call.ret # NoRprImage

----------------------------------------------------------------------------
\* The fields of `pend` in the order resolution, aov, region, camera.
InOrder(pend) ==
  SelectSeq(<<"render_resolution", "aov", "render_region", "render_camera">>,
            LAMBDA f : f \in pend)

\* C16: a check_updates call that returns has popped the fields pending at
\* its start in the order resolution, aov, region, camera; with a resolution
\* pending a pending aov was in aov_settings before the render targets and
\* layers were recreated, and is in the new layers; render_layers.update was
\* invoked exactly when an aov was pending and no resolution was.
C16_CheckUpdatesOrder ==
  /\ hist.cu.done =>
       /\ hist.cu.order = InOrder(hist.cu.pend)
       /\ hist.cu.incr <=>
            ("aov" \in hist.cu.pend /\ "render_resolution" \notin hist.cu.pend)
       /\ {"render_resolution", "aov"} \subseteq hist.cu.pend =>
            /\ hist.cu.folded
            /\ sr.render_layers.aov = sr.aov_settings \/ sr.render_layers = NoLayers
  /\ \A t \in Threads :
       (th[t].pc \in {"cu_img", "cu_create", "cu_attach"} /\ hist.cu.by = t) =>
         ("render_resolution" \in hist.cu.pend /\ ~hist.cu.incr)

\* A check_updates call with a resolution and an aov pending has returned.
C16_Witness ==
  /\ hist.cu.done
  /\ hist.cu.order = <<"render_resolution", "aov">>
  /\ hist.cu.folded
  /\ sr.render_layers.aov = co.applied["aov"]
  /\ co.applied["aov"] # None

----------------------------------------------------------------------------
\* Where a worker stands inside check_updates.
InCheckUpdates == {"cu_begin", "cu_img", "cu_create", "cu_attach", "cu_rest"}

\* C17: a worker inside check_updates holds update_lock and no worker is
\* inside next(render_iter) then; a worker inside next(render_iter) holds
\* update_lock; and an applied value changes only by a step of a worker
\* inside check_updates (or by set_render_resolution, which enqueues
\* nothing).
C17_AppliedBetweenSteps ==
  /\ [](\A t \in Threads :
          /\ th[t].pc \in InCheckUpdates =>
               (locks.update_lock = {t} /\ \A u \in Threads : th[u].pc # "next")
          /\ th[t].pc = "next" => locks.update_lock = {t})
  /\ [][(co'.applied # co.applied \/ sr'.region # sr.region
           \/ sr'.aov_settings # sr.aov_settings) =>
          \/ \E t \in Threads :
               /\ th[t].pc \in {"cu_begin", "cu_rest"}
               /\ th'[t].pc # th[t].pc
               /\ \A u \in Threads : th[u].pc # "next"
          \/ host'.pc = "set_create"]_vars

\* A worker is applying the region its host enqueued after the generator had
\* yielded.
C17_Witness ==
  \E t \in Threads :
    /\ th[t].pc = "cu_rest"
    /\ gen[t].pc = "yielded"
    /\ co.update_data["render_region"].has_value
    /\ hist.called["render_region"]

----------------------------------------------------------------------------
----------------------------------------------------------------------------
\* C19 as stated: when a worker has set the completion signal on the
\* exhaustion of its generator, no render call is issued while the signal
\* stays set: no worker is inside next(render_iter).
C19_CompletedUntilUpdate ==
  (co.render_completed_event
     /\ \E t \in Threads : th[t].pc = "run" /\ gen[t].pc = "done")
  => \A u \in Threads : th[u].pc # "next"

----------------------------------------------------------------------------
\* C20: a worker that finds the redraw flag set after the check_updates of
\* its loop returns from render_proc at once: its generator is not stepped,
\* the completion signal and the flag are left as they are; the render_proc
\* it enters next makes a fresh generator, and a generator not yet past its
\* buffer clear stands at iteration 0 with nothing yielded.
C20_RestartAbandonsGenerator ==
  /\ [][\A t \in Threads :
          /\ (th[t].pc = "after_loop" /\ co.need_scene_redraw /\ th'[t].pc # "after_loop") =>
               /\ th'[t].pc = "run"
               /\ gen'[t] = gen[t]
               /\ co' = co
               /\ locks'.update_lock = {}
          /\ (th[t].pc = "run" /\ th'[t].pc = "cu_begin") => gen'[t] = gen_create]_vars
  /\ [](\A t \in Threads :
          gen[t].pc \in {"created", "apply", "clear"} =>
            (gen[t].i = 0 /\ gen[t].yields = 0))

\* The only worker started has returned from render_proc with its generator
\* suspended at a yield and the redraw flag set, which only a change applied
\* by the check_updates of its loop can have done; the completion signal is
\* not set.
C20_Witness ==
  /\ LastStarted = 1
  /\ th[1].pc = "run"
  /\ gen[1].pc = "yielded"
  /\ co.need_scene_redraw
  /\ ~co.render_completed_event

----------------------------------------------------------------------------
\* C21: while a worker is inside next(render_iter) nobody holds
\* update_data_lock, and a host setter that has reached update_block goes on
\* whenever update_data_lock is free, whoever holds update_lock or
\* image_lock: a render iteration never blocks it.
C21_SettersNeverWaitForRender ==
  /\ (\E t \in Threads : th[t].pc = "next") => locks.update_data_lock = {}
  /\ (host.pc = "update_block" /\ locks.update_data_lock = {}) => ENABLED HUpdateBlock

\* A host setter is at update_block while a worker, holding update_lock, is
\* inside a generator step that is about to issue the render call.
C21_Witness ==
  /\ host.pc = "update_block"
  /\ \E t \in Threads :
       /\ th[t].pc = "next"
       /\ gen[t].pc = "render"
       /\ locks.update_lock = {t}

----------------------------------------------------------------------------
\* C22 as stated: while a worker is running, every step that replaces
\* render_targets is made with image_lock held by a worker, and not while a
\* worker is at its render call.
C22_TargetsSwapUnderImageLock ==
  [][(sr'.render_targets # sr.render_targets
        /\ \E t \in Threads : th[t].pc \notin ({"none"} \cup Dead))
     => /\ \E t \in Threads : locks'.image_lock = {t}
        /\ \A u \in Threads : ~(th[u].pc = "next" /\ gen[u].pc = "render")]_vars

----------------------------------------------------------------------------
\* C23: the two steps of a host update_* call (reading its arguments, then
\* update_block) leave the pending slots of the other fields, the applied
\* values, the SceneRenderer and its attached targets, the redraw flag, the
\* completion signal, the worker threads and the locks as they were.
C23_UpdateTouchesOwnSlotOnly ==
  [][((host.pc = "idle" /\ host'.pc = "update_block")
        \/ (host.pc = "update_block" /\ host'.pc = "idle"))
     => /\ \A f \in Fields \ {host'.f} : co'.update_data[f] = co.update_data[f]
        /\ co'.applied = co.applied
        /\ co'.need_scene_redraw = co.need_scene_redraw
        /\ co'.render_completed_event = co.render_completed_event
        /\ co'.stop_requested = co.stop_requested
        /\ co'.thread = co.thread
        /\ <<sr, attached, th, gen, locks>>' = <<sr, attached, th, gen, locks>>]_vars

\* An update_render_region call has returned with its slot filled while the
\* completion signal of a finished cycle is still set.
C23_Witness ==
  /\ host.pc = "idle"
  /\ hist.called["render_region"]
  /\ co.update_data["render_region"].has_value
  /\ co.render_completed_event

----------------------------------------------------------------------------
\* The sample count as the claim C24 words it, whatever the limit settings.
C24_StatedSamples ==
  IF cfg.is_production /\ cfg.device_type = "gpu" /\ cfg.device_type_plus_cpu
  THEN 100
  ELSE IF cfg.is_production /\ cfg.numGPUs > cfg.samples
       THEN cfg.numGPUs
       ELSE cfg.samples

\* C24 as stated: once a refine cycle has applied its settings, the sample
\* count handed to the context is 100 for a production render on GPU plus
\* CPU, else the GPU count for a production render with more GPUs than user
\* samples, else the user samples; and used_iterations is
\* max(1, floor(limit iterations * user samples / that count)); with the
\* limit on or off, of either type.
C24_EffectiveSamples ==
  gen[0].pc \in {"clear", "loop", "render", "yielded", "done"} =>
    /\ sr.aasamples = C24_StatedSamples
    /\ sr.used_iterations = Max(1, (cfg.iterations * cfg.samples) \div C24_StatedSamples)

----------------------------------------------------------------------------
----------------------------------------------------------------------------
\* Where a generator stands inside a refine cycle.
MidCycle == {"apply", "clear", "loop", "render", "yielded"}

\* C26 as stated: with the rendering limits enabled, of either type and with
\* any value, a generator that is stepped on comes to an end.
C26_EveryLimitTerminates ==
  cfg.enable => ((gen[0].pc \in MidCycle) ~> (gen[0].pc \notin MidCycle))

\* A limit that ends the cycle: enabled, and not a time limit of 0.
Limited == cfg.enable /\ ~(cfg.type = "TIME" /\ cfg.time = 0)

\* C26: without such a limit the generator is never exhausted; with an
\* iteration limit, or a time limit other than 0, a generator that is
\* stepped on comes to an end (exhausted, failed or discarded).
C26_TerminatesIffLimited ==
  /\ [](~Limited => gen[0].pc # "done")
  /\ Limited => ((gen[0].pc \in MidCycle) ~> (gen[0].pc \notin MidCycle))

\* A cycle under a time limit has been exhausted after a yield.
C26_Witness ==
  /\ Timed(cfg)
  /\ cfg.time # 0
  /\ gen[0].pc = "done"
  /\ gen[0].yields >= 1

----------------------------------------------------------------------------
\* C27: a get_image call that finds no frame buffer, resolves no image or
\* fails in a native call returns nothing and leaves im_prepared as it was;
\* a get_image call changes im_prepared only by adding, for its own channel
\* and from a frame buffer there is, the image it resolved and returns; and
\* the only other change to im_prepared is the clearing by a render call.
C27_CacheOnlyFromResolvedImage ==
  [][LET call == img'.call
         aov == call.aov
     IN /\ (img'.call # img.call
              /\ call.outcome \in {"no_buffer", "no_image", "error", "AttributeError"})
           => (sr'.im_prepared = sr.im_prepared /\ call.ret = NoImage)
        /\ (sr'.im_prepared # sr.im_prepared /\ gen' = gen)
           => /\ img'.call # img.call
              /\ call.outcome = "image"
              /\ get_frame_buffer(sr, aov)
              /\ sr.im_prepared[aov] = NoImage
              /\ call.ret # NoImage
              /\ sr'.im_prepared = [sr.im_prepared EXCEPT ![aov] = call.ret]
        /\ (sr'.im_prepared # sr.im_prepared /\ gen' # gen)
           => sr'.im_prepared = [a \in AovNames |-> NoImage]]_vars

\* get_image("depth") has found no frame buffer and returned nothing while
\* the image of the default channel stays in the cache.
C27_Witness ==
  /\ img.call.aov = "depth"
  /\ img.call.outcome = "no_buffer"
  /\ img.call.ret = NoImage
  /\ sr.im_prepared["depth"] = NoImage
  /\ sr.im_prepared["default"] # NoImage

----------------------------------------------------------------------------
\* C28: a stop() that found a thread returns in the end; and the worker does
\* not go round again once the flags are set: at the loop test with
\* stop_requested set it leaves the loop, and at the test of run() with its
\* terminate_event set it leaves run().
C28_StopReturns ==
  /\ (host.pc \in {"stop_terminate", "stop_join"}) ~> (host.pc = "idle")
  /\ [][\A t \in Threads :
          /\ (th[t].pc \in {"while", "sleep"} /\ co.stop_requested
                /\ th'[t].pc # th[t].pc) => th'[t].pc = "fin"
          /\ (th[t].pc = "run" /\ th[t].terminate_event
                /\ th'[t].pc # "run") => th'[t].pc = "exited"]_vars

\* A stop() issued while the worker was about to step its generator has
\* returned: the worker made that one step and left run().
C28_Witness ==
  /\ host.pc = "idle"
  /\ co.thread = 0
  /\ hist.stop_at = "after_loop"
  /\ \E t \in hist.joined : th[t].pc = "exited" /\ gen[t].pc = "yielded"

----------------------------------------------------------------------------
\* C29 as stated: the step that sets the completion signal is made by a
\* worker whose generator is exhausted.
C29_CompletedOnlyOnExhaustion ==
  [][(co'.render_completed_event /\ ~co.render_completed_event)
       => \E t \in Threads : th[t].pc = "fin" /\ gen[t].pc = "done"]_vars

----------------------------------------------------------------------------
\* C30 as stated: when no worker holds update_lock, the completion event and
\* the redraw flag are not both set.
C30_CompletedExcludesRedraw ==
  locks.update_lock = {} => ~(co.render_completed_event /\ co.need_scene_redraw)

----------------------------------------------------------------------------
\* A worker thread is alive: started, and neither returned from run() nor
\* ended by an error.
Alive == \E t \in Threads : th[t].pc \notin ({"none"} \cup Dead)

\* C31: as long as a worker is alive, a pending slot is emptied in the end
\* and a redraw flag that is set is taken up in the end by a worker that
\* enters its loop with a generator not yet started; the step that empties a
\* slot is a worker's, and makes the value of the slot the applied one.
C31_PendingEventuallyApplied ==
  /\ \A f \in Fields :
       (co.update_data[f].has_value /\ Alive)
         ~> (~co.update_data[f].has_value \/ ~Alive)
  /\ (co.need_scene_redraw /\ Alive)
       ~> ((\E t \in Threads : th[t].pc = "while" /\ gen[t].pc = "created") \/ ~Alive)
  /\ [][\A f \in Fields :
          (co.update_data[f].has_value /\ ~co'.update_data[f].has_value
             /\ host'.pc = host.pc)
          => co'.applied[f] = co.update_data[f].value]_vars

\* A resolution passed to update_render_resolution after the cycle was
\* completed has been popped and applied by a worker, which is about to make
\* the render targets; the completion signal is still set.
C31_Witness ==
  /\ co.render_completed_event
  /\ hist.called["render_resolution"]
  /\ co.applied["render_resolution"] = hist.last["render_resolution"]
  /\ \E t \in Threads :
       /\ th[t].pc = "cu_create"
       /\ hist.cu.by = t
       /\ "render_resolution" \in hist.cu.pend

----------------------------------------------------------------------------
\* The threads that take locks: the host thread and the workers.
Agents == {HostThread} \cup Threads

LockNames == {"update_lock", "update_data_lock", "image_lock"}

\* The lock a thread stands before, "none" when it stands before no lock.
WaitsFor(x) ==
  IF x = HostThread
  THEN IF host.pc = "update_block" THEN "update_data_lock"
       ELSE IF host.pc = "read_lock" THEN "image_lock"
       ELSE "none"
  ELSE IF th[x].pc = "run" /\ ~th[x].terminate_event THEN "update_lock"
       ELSE IF th[x].pc \in {"while", "sleep"} /\ ~co.stop_requested THEN "update_lock"
       ELSE IF th[x].pc = "cu_begin" THEN "update_data_lock"
       ELSE IF th[x].pc = "cu_img" THEN "image_lock"
       ELSE "none"

\* x stands before a lock that y holds (a threading.Lock is not reentrant).
Blocks(x, y) == WaitsFor(x) # "none" /\ y \in locks[WaitsFor(x)]

\* From x a chain of n threads, each blocked by the next, can be followed.
RECURSIVE Stuck(_, _)
Stuck(x, n) ==
  IF n = 0 THEN TRUE ELSE \E y \in Agents : Blocks(x, y) /\ Stuck(y, n - 1)

\* C32: every lock has one holder at most; a worker holds update_data_lock
\* only inside update_lock and image_lock only inside update_data_lock; the
\* host holds image_lock only, and stands before no lock while it holds it;
\* and no chain of blocked threads closes on itself.
C32_NoDeadlock ==
  /\ \A l \in LockNames : Cardinality(locks[l]) <= 1
  /\ \A t \in Threads :
       /\ t \in locks.image_lock => t \in locks.update_data_lock
       /\ t \in locks.update_data_lock => t \in locks.update_lock
  /\ HostThread \notin (locks.update_lock \cup locks.update_data_lock)
  /\ HostThread \in locks.image_lock => WaitsFor(HostThread) = "none"
  /\ \A x \in Agents : ~Stuck(x, Cardinality(Agents))

\* The host reads an image under image_lock while a worker, inside
\* check_updates with update_lock and update_data_lock, stands before
\* image_lock.
C32_Witness ==
  /\ host.pc = "read_image"
  /\ \E t \in Threads :
       /\ Blocks(t, HostThread)
       /\ locks.update_lock = {t}
       /\ locks.update_data_lock = {t}

\* No worker is running: each thread was never started or has ended.
NoneAlive == \A t \in Threads : th[t].pc \in ({"none"} \cup Dead)

\* C33: a worker an error has ended (in check_updates, in the making of the
\* render targets under image_lock, or in a generator step) holds none of the
\* three locks; once no worker is left running every lock is free and a host
\* update_* call standing before update_data_lock can take it, and a stop()
\* that joins a worker an error has ended returns.
C33_CrashReleasesLocks ==
  /\ \A t \in Threads :
       th[t].pc = "crashed" => \A l \in LockNames : t \notin locks[l]
  /\ ((\E t \in Threads : th[t].pc = "crashed") /\ NoneAlive)
       => /\ \A l \in LockNames : locks[l] = {}
          /\ host.pc = "update_block" => ENABLED HUpdateBlock
  /\ (host.pc = "stop_join" /\ th[co.thread].pc = "crashed") => ENABLED HStopJoin

\* The worker died while making the render targets, all three locks taken,
\* and the host stands in a later update_* call.
C33_Witness ==
  /\ host.pc = "update_block"
  /\ \E t \in Threads :
       /\ th[t].pc = "crashed"
       /\ hist.cu.by = t
       /\ hist.cu.order # <<>>
       /\ hist.cu.order[1] = "render_resolution"

\* C34: an image get_image returns while the renderer holds render targets
\* was resolved from those targets, never from a set that
\* update_render_resolution has replaced since.
C34_NeverReturnsStaleImage ==
  [][(img'.call # img.call /\ img'.call.ret # NoImage /\ sr'.render_targets # None)
       => img'.call.ret.targets = sr'.render_targets]_vars

\* C35: the resolution, aov and camera slots are empty until the host passes
\* a value for them; until the host passes a region other than None the
\* region slot holds None, and before any start() it is pending; an
\* update_render_region(None) on the pending None slot leaves it as it is; the
\* check_updates that finds it pending pops it, applies region None and marks
\* a redraw, and a first check_updates of a render_proc that applied it goes
\* on into the loop with a generator not yet started.
C35_InitialRegionPending ==
  /\ [](\A f \in Fields \ {"render_region"} :
          hist.used[f] = 0 => co.update_data[f] = UpdateBlock(None, FALSE))
  /\ [](hist.used["render_region"] = 0
          => /\ co.update_data["render_region"].value = None
             /\ LastStarted = 0 => co.update_data["render_region"] = UpdateBlock(None, TRUE))
  /\ [][(HUpdateBlock /\ host.f = "render_region" /\ host.new = None
           /\ co.update_data["render_region"] = UpdateBlock(None, TRUE))
          => co'.update_data["render_region"] = UpdateBlock(None, TRUE)]_vars
  /\ [][\A t \in Threads :
          (th[t].pc = "cu_rest" /\ th'[t].pc # "cu_rest"
             /\ co.update_data["render_region"] = UpdateBlock(None, TRUE))
          => /\ co'.applied["render_region"] = None
             /\ sr'.region = None
             /\ ~co'.update_data["render_region"].has_value
             /\ co'.need_scene_redraw
             /\ ~co'.render_completed_event]_vars
  /\ [][\A t \in Threads :
          (th[t].pc = "after_first" /\ th'[t].pc # "after_first"
             /\ hist.cu.by = t
             /\ \E i \in DOMAIN hist.cu.order : hist.cu.order[i] = "render_region")
          => /\ th'[t].pc = "while"
             /\ gen'[t] = gen_create
             /\ ~co'.need_scene_redraw]_vars

\* The host called update_render_region(None) and then start(), nothing else;
\* the worker's first check_updates has popped the region slot and the worker
\* stands in its loop with a new generator.
C35_Witness ==
  /\ host.ops = 2
  /\ hist.called["render_region"]
  /\ hist.last["render_region"] = None
  /\ \A f \in Fields \ {"render_region"} : ~hist.called[f]
  /\ LastStarted = 1
  /\ th[1].pc = "while"
  /\ gen[1] = gen_create
  /\ co.applied["render_region"] = None
  /\ ~co.update_data["render_region"].has_value

====
